---- MODULE Spec2Model ----
(***************************************************************************)
(* Batched, parallel query execution of aperturedb (ParallelQuery.py and   *)
(* CommonLibrary.py): batch assembly with ref renumbering, execution and   *)
(* classification of one batch, demultiplexing of the response to the      *)
(* caller's handler, and the worker loop with its shared statistics.       *)
(***************************************************************************)
EXTENDS Integers, Sequences, FiniteSets, TLC

VARIABLES
    call,   \* pure-function specifications: "input" before, "done" after the call
    args,   \* the arguments the function under study is applied to
    ret,    \* what it returned (or that it raised)
    generator,           \* the record source given to query(), with its attributes
    dry_run,             \* ParallelQuery.dry_run
    phase,               \* "constructed", then "running" once query() started the workers
    batchsize,           \* Parallelizer.batchsize
    commands_per_query,  \* ParallelQuery.commands_per_query
    blobs_per_query,     \* ParallelQuery.blobs_per_query
    error_counter,       \* Parallelizer.error_counter, shared by the workers
    times_arr,           \* Parallelizer.times_arr, shared by the workers
    actual_stats,        \* Parallelizer.actual_stats, shared by the workers
    wk                   \* thid -> the worker thread's locals and position

pureVars == <<call, args, ret>>

runVars == <<generator, dry_run, phase, batchsize, commands_per_query,
             blobs_per_query, error_counter, times_arr, actual_stats, wk>>

vars == <<call, args, ret, generator, dry_run, phase, batchsize,
          commands_per_query, blobs_per_query, error_counter, times_arr,
          actual_stats, wk>>

\* The object's state while a single function is studied on its own.
NoRun ==
    /\ generator = [records |-> << >>, arity |-> 0, strict |-> FALSE]
    /\ dry_run = FALSE
    /\ phase = "none"
    /\ batchsize = 1
    /\ commands_per_query = 1
    /\ blobs_per_query = 0
    /\ error_counter = 0
    /\ times_arr = << >>
    /\ actual_stats = << >>
    /\ wk = << >>

(***************************************************************************)
(* Bounds of the model.                                                    *)
(***************************************************************************)
MaxBatchCmds == 3      \* commands of one batch handed to generate_batch
MaxLocalRef == 1       \* record-local ref values are 1..MaxLocalRef

\* ParallelQuery.py:195  assert values["_ref"] < 100000
RefLimit == 100000

LocalRefs == 1 .. MaxLocalRef

(***************************************************************************)
(* Small helpers on sequences.                                             *)
(***************************************************************************)
Min(a, b) == IF a <= b THEN a ELSE b

\* Python's s[lo:hi] for 0 <= lo, on a TLA+ (1-based) sequence.
Slice(s, lo, hi) ==
    IF Min(hi, Len(s)) <= lo THEN << >> ELSE SubSeq(s, lo + 1, Min(hi, Len(s)))

\* Python's math.ceil(n / d) for n >= 0, d >= 1.
CeilDiv(n, d) == (n + d - 1) \div d

RECURSIVE SumSeq(_)
SumSeq(s) == IF s = << >> THEN 0 ELSE Head(s) + SumSeq(Tail(s))

RECURSIVE Concat(_)
Concat(ss) == IF ss = << >> THEN << >> ELSE Head(ss) \o Concat(Tail(ss))

(***************************************************************************)
(* Commands.  A command is a single-key dict {op: values}; the model keeps *)
(* the key as op and the fields of values that the code reads.  An absent  *)
(* key is 0 (refs are positive), an absent or empty list is << >>.  A      *)
(* command that is itself a list (a pre-batched query) has list = TRUE.    *)
(***************************************************************************)
BaseCmd ==
    [op |-> "AddEntity", list |-> FALSE, blobs |-> "absent",
     _ref |-> 0, image_ref |-> 0, video_ref |-> 0,
     is_connected_to |-> [ref |-> 0, any |-> << >>, all |-> << >>],
     connect |-> [ref |-> 0], src |-> 0, dst |-> 0, ref |-> 0]

ListCmd == [BaseCmd EXCEPT !.op = "list", !.list = TRUE]

PtrKinds ==
    {"image_ref", "video_ref", "is_connected_to.ref", "is_connected_to.any",
     "is_connected_to.all", "connect.ref", "src", "dst", "ref"}

\* A dict command that defines local ref r (0: none) and points at local
\* ref p (0: no pointer) through the pointer field kind.
MkCmd(kind, r, p) ==
    LET c == [BaseCmd EXCEPT !._ref = r]
    IN  IF p = 0 THEN c
        ELSE CASE kind = "image_ref" -> [c EXCEPT !.image_ref = p]
               [] kind = "video_ref" -> [c EXCEPT !.video_ref = p]
               [] kind = "is_connected_to.ref" -> [c EXCEPT !.is_connected_to.ref = p]
               [] kind = "is_connected_to.any" -> [c EXCEPT !.is_connected_to.any = <<p, 0>>]
               [] kind = "is_connected_to.all" -> [c EXCEPT !.is_connected_to.all = <<0, p>>]
               [] kind = "connect.ref" -> [c EXCEPT !.connect.ref = p]
               [] kind = "src" -> [c EXCEPT !.src = p]
               [] kind = "dst" -> [c EXCEPT !.dst = p]
               [] kind = "ref" -> [c EXCEPT !.ref = p]

\* The local refs a command's pointer fields hold.
Pointers(values) ==
    ({values.image_ref, values.video_ref, values.is_connected_to.ref,
      values.connect.ref, values.src, values.dst, values.ref}
     \cup {values.is_connected_to.any[j] : j \in DOMAIN values.is_connected_to.any}
     \cup {values.is_connected_to.all[j] : j \in DOMAIN values.is_connected_to.all})
    \ {0}

(***************************************************************************)
(* generate_batch (ParallelQuery.py:172-222).                              *)
(***************************************************************************)
\* The ref written for the command at 0-based index i (lines 193-194).
NewRef_zero_based(i) == i

NewRef(i) == i + 1

\* updates[v] of line 197..215; 0 stands for a missing key (KeyError).
Remap_unchanged(updates, v) == v

Remap(updates, v) == IF v = 0 THEN 0 ELSE updates[v]

\* Lines 196-215: every pointer field present is overwritten from updates.
RewritePointers(values, updates) ==
    [values EXCEPT
        !.image_ref = Remap(updates, @),
        !.video_ref = Remap(updates, @),
        !.is_connected_to =
            [ref |-> Remap(updates, @.ref),
             any |-> [j \in DOMAIN @.any |-> Remap(updates, @.any[j])],
             all |-> [j \in DOMAIN @.all |-> Remap(updates, @.all[j])]],
        !.connect = [ref |-> Remap(updates, @.ref)],
        !.src = Remap(updates, @),
        !.dst = Remap(updates, @),
        !.ref = Remap(updates, @)]

\* updates[v] raises KeyError when v is no key of updates.
MissingRef_never(updates, v) == FALSE

MissingRef(updates, v) == updates[v] = 0

\* Line 195: assert values["_ref"] < 100000.
WithinLimit_inclusive(ref) == ref <= RefLimit

WithinLimit(ref) == ref < RefLimit

\* Lines 188-190: a list-typed command ends the loop.
StopsAt_never(cmd) == FALSE

StopsAt(cmd) == cmd.list

\* The loop of update_refs (lines 187-217) over the commands
\* batched_commands from the i-th of them on (i = 0, 1, ...): the result is
\* the renumbered list, or the exception that left the loop.  The batch
\* starts with lead commands that are dicts without _ref and without
\* pointer, which the loop has passed without effect; batched_commands are
\* the commands after them, the i-th at index lead + i of the batch.
RECURSIVE update_refs_from(_, _, _, _)
update_refs_from(lead, i, updates, batched_commands) ==
    IF i >= Len(batched_commands)
    THEN [raised |-> "none", cmds |-> batched_commands]
    ELSE LET cmd == batched_commands[i + 1]
             upd == IF cmd._ref # 0
                    THEN [updates EXCEPT ![cmd._ref] = NewRef(lead + i)]
                    ELSE updates
         IN  IF StopsAt(cmd)
             THEN [raised |-> "none", cmds |-> batched_commands]
             ELSE IF cmd._ref # 0 /\ ~WithinLimit(NewRef(lead + i))
             THEN [raised |-> "AssertionError", cmds |-> << >>]
             ELSE IF \E v \in Pointers(cmd) : MissingRef(upd, v)
             THEN [raised |-> "KeyError", cmds |-> << >>]
             ELSE update_refs_from(lead, i + 1, upd,
                    [batched_commands EXCEPT ![i + 1] =
                        [RewritePointers(cmd, upd) EXCEPT
                            !._ref = IF cmd._ref # 0 THEN NewRef(lead + i) ELSE 0]])

\* update_refs on a batch of lead commands without _ref and pointer followed
\* by batched_commands.
update_refs_after(lead, batched_commands) ==
    update_refs_from(lead, 0, [v \in LocalRefs |-> 0], batched_commands)

update_refs(batched_commands) == update_refs_after(0, batched_commands)

\* Lines 219-222: data is a sequence of records [cmds, blobs].
generate_batch(data) ==
    LET u == update_refs(Concat([k \in DOMAIN data |-> data[k].cmds]))
    IN  [raised |-> u.raised, q |-> u.cmds,
         blobs |-> IF u.raised = "none"
                   THEN Concat([k \in DOMAIN data |-> data[k].blobs])
                   ELSE << >>]

(***************************************************************************)
(* Batches handed to generate_batch: n commands cut into records at the    *)
(* positions of cuts; record k carries one input blob, k.                  *)
(***************************************************************************)
CutsBelow(cuts, c) == Cardinality({d \in cuts : d <= c})

KthCut(cuts, k) == CHOOSE c \in cuts : CutsBelow(cuts, c) = k

RecordsOf(flat, cuts) ==
    [k \in 1 .. Cardinality(cuts) + 1 |->
        [cmds |-> Slice(flat,
                        IF k = 1 THEN 0 ELSE KthCut(cuts, k - 1),
                        IF k = Cardinality(cuts) + 1 THEN Len(flat) ELSE KthCut(cuts, k)),
         blobs |-> <<k>>]]

\* The record (1-based) that holds the command at 1-based batch position pos.
RECURSIVE RecordAt(_, _)
RecordAt(data, pos) ==
    IF pos <= Len(data[1].cmds) THEN 1
    ELSE 1 + RecordAt(Tail(data), pos - Len(data[1].cmds))

FlatCmds(data) == Concat([k \in DOMAIN data |-> data[k].cmds])

(***************************************************************************)
(* Specification of batch assembly alone.                                  *)
(***************************************************************************)
InitBatch ==
    /\ NoRun
    /\ call = "input"
    /\ \E n \in 1 .. MaxBatchCmds, kind \in PtrKinds :
         \E flat \in [1 .. n -> {MkCmd(kind, r, p) : r \in 0 .. MaxLocalRef,
                                                   p \in 0 .. MaxLocalRef}
                                \cup {ListCmd}],
            cuts \in SUBSET (1 .. n - 1) :
              args = [data |-> RecordsOf(flat, cuts)]
    /\ ret = [raised |-> "none", q |-> << >>, blobs |-> << >>]

GenerateBatch ==
    /\ call = "input"
    /\ call' = "done"
    /\ ret' = generate_batch(args.data)
    /\ UNCHANGED <<args, runVars>>

NextBatch == GenerateBatch

SpecBatch == InitBatch /\ [][NextBatch]_vars

(***************************************************************************)
(* Specification of the assembly of a long batch: args.lead commands       *)
(* without _ref and pointer, then the commands args.tail around position   *)
(* RefLimit.  ret.q is what generate_batch makes of args.tail.             *)
(***************************************************************************)
MaxTail == 2           \* commands of a long batch looked at

InitLimit ==
    /\ NoRun
    /\ call = "input"
    /\ \E lead \in RefLimit - MaxTail - 1 .. RefLimit, n \in 1 .. MaxTail :
         \E tail \in [1 .. n -> {MkCmd("ref", r, p) : r \in 0 .. MaxLocalRef,
                                                     p \in 0 .. MaxLocalRef}
                                \cup {ListCmd}] :
              args = [lead |-> lead, tail |-> tail]
    /\ ret = [raised |-> "none", q |-> << >>, blobs |-> << >>]

GenerateLongBatch ==
    /\ call = "input"
    /\ call' = "done"
    /\ ret' = LET u == update_refs_after(args.lead, args.tail)
              IN  [raised |-> u.raised, q |-> u.cmds, blobs |-> << >>]
    /\ UNCHANGED <<args, runVars>>

\* Lines 344-348: the exception of generate_batch leaves do_batch (line
\* 258) and is caught by the worker, which counts it.
WorkerCatches ==
    /\ call = "done"
    /\ ret.raised # "none"
    /\ call' = "counted"
    /\ error_counter' = error_counter + 1
    /\ UNCHANGED <<args, ret, generator, dry_run, phase, batchsize,
                   commands_per_query, blobs_per_query, times_arr,
                   actual_stats, wk>>

NextLimit == GenerateLongBatch \/ WorkerCatches

SpecLimit == InitLimit /\ [][NextLimit]_vars

(***************************************************************************)
(* Responses.  A response is a list with one entry per command (the entry  *)
(* of command k is {op_k: {status, returned}}), or a single dict carrying  *)
(* a status, or something else ("other").                                  *)
(***************************************************************************)
ListResponse(items) == [shape |-> "list", items |-> items, status |-> 0]

DictResponse(status) == [shape |-> "dict", items |-> << >>, status |-> status]

OtherResponse == [shape |-> "other", items |-> << >>, status |-> 0]

\* The caller's handler (present: one is supplied): it raises at its
\* raise_at-th invocation of a batch (0: never) an exception that is an
\* Exception, or a BaseException that is not one (kind).
QuietHandler == [present |-> TRUE, raise_at |-> 0, kind |-> "Exception"]

NoHandler == [present |-> FALSE, raise_at |-> 0, kind |-> "Exception"]

\* None for an output-blob slice, and a slice that is a list.
NoneSlice == [none |-> TRUE, blobs |-> << >>]

SomeSlice(blobs) == [none |-> FALSE, blobs |-> blobs]

\* None for cmd_index_offset.
NoIndex == -1

(***************************************************************************)
(* map_response_to_handler (ParallelQuery.py:116-147, and the same code in *)
(* CommonLibrary.py:171-202).                                              *)
(***************************************************************************)
\* Lines 131-132.
blob_returning_commands ==
    {"FindImage", "FindBlob", "FindVideo", "FindDescriptor", "FindBoundingBox"}

\* Line 133: k in blob_returning_commands and "blobs" in req[k] and req[k]["blobs"].
\* Iterating a list command yields its elements, none of which is a name.
AsksForBlobs(req) ==
    ~req.list /\ req.op \in blob_returning_commands /\ req.blobs = "true"

\* Lines 127-135: b_count of the group query[start:end].
b_count_of(query, response, start, end) ==
    IF response.shape = "list"
    THEN LET reqs == Slice(query, start, end)
             resps == Slice(response.items, start, end)
         IN  SumSeq([j \in 1 .. Min(Len(reqs), Len(resps)) |->
                        IF AsksForBlobs(reqs[j]) THEN resps[j].returned ELSE 0])
    ELSE 0

\* Lines 144-145: the output-blob slice handed to the handler.
OutSlice_unchecked(response_blobs, blobs_returned, b_count) ==
    SomeSlice(Slice(response_blobs, blobs_returned, blobs_returned + b_count))

OutSlice_empty_when_none_due(response_blobs, blobs_returned, b_count) ==
    IF b_count = 0 \/ Len(response_blobs) >= blobs_returned + b_count
    THEN SomeSlice(Slice(response_blobs, blobs_returned, blobs_returned + b_count))
    ELSE NoneSlice

OutSlice(response_blobs, blobs_returned, b_count) ==
    IF Len(response_blobs) >= blobs_returned + b_count
    THEN SomeSlice(Slice(response_blobs, blobs_returned, blobs_returned + b_count))
    ELSE NoneSlice

\* Line 147: the cursor after a group.
NextCursor_fixed(blobs_returned, b_count) == blobs_returned + 1

NextCursor(blobs_returned, b_count) == blobs_returned + b_count

\* Line 122: start of group i among the commands.
GroupStart_unscaled(i, cpq) == i

GroupStart(i, cpq) == i * cpq

\* Line 124: start of group i among the input blobs.
BlobsStart(i, bpq) == i * bpq

\* Line 146: the index handed to the handler for group i.
CallIndex_offset_only(cmd_index_offset, i) == cmd_index_offset

CallIndex(cmd_index_offset, i) ==
    IF cmd_index_offset = NoIndex THEN NoIndex ELSE cmd_index_offset + i

\* Lines 139-146: the arguments of the handler's invocation for group i.
HandlerCall(a, i, blobs_returned) ==
    LET start == GroupStart(i, a.commands_per_query)
        end == start + a.commands_per_query
        blobs_start == BlobsStart(i, a.blobs_per_query)
        blobs_end == blobs_start + a.blobs_per_query
    IN  [query |-> Slice(a.query, start, end),
         query_blobs |-> Slice(a.query_blobs, blobs_start, blobs_end),
         response |-> IF a.response.shape = "list"
                      THEN ListResponse(Slice(a.response.items, start, end))
                      ELSE a.response,
         response_blobs |-> OutSlice(a.response_blobs, blobs_returned,
                                     b_count_of(a.query, a.response, start, end)),
         index |-> CallIndex(a.cmd_index_offset, i)]

\* The loop of lines 121-147 from group i on; calls are the invocations made
\* so far.  An exception of the handler leaves the loop.
RECURSIVE map_response_from_resuming(_, _, _, _)
map_response_from_resuming(a, i, blobs_returned, calls) ==
    IF i >= CeilDiv(Len(a.query), a.commands_per_query)
    THEN [raised |-> IF a.handler.raise_at \in 1 .. i
                     THEN a.handler.kind
                     ELSE "none",
          calls |-> calls]
    ELSE LET start == GroupStart(i, a.commands_per_query)
         IN  map_response_from_resuming(a, i + 1,
                NextCursor(blobs_returned,
                           b_count_of(a.query, a.response, start,
                                      start + a.commands_per_query)),
                Append(calls, HandlerCall(a, i, blobs_returned)))

RECURSIVE map_response_from(_, _, _, _)
map_response_from(a, i, blobs_returned, calls) ==
    IF i >= CeilDiv(Len(a.query), a.commands_per_query)
    THEN [raised |-> "none", calls |-> calls]
    ELSE LET c == HandlerCall(a, i, blobs_returned)
             start == GroupStart(i, a.commands_per_query)
         IN  IF a.handler.raise_at = i + 1
             THEN [raised |-> a.handler.kind, calls |-> Append(calls, c)]
             ELSE map_response_from(a, i + 1,
                    NextCursor(blobs_returned,
                               b_count_of(a.query, a.response, start,
                                          start + a.commands_per_query)),
                    Append(calls, c))

map_response_to_handler(a) == map_response_from(a, 0, 0, << >>)

(***************************************************************************)
(* Specification of the demultiplexer alone.  Two families of arguments:   *)
(* retrieval batches (the output-blob slicing) and batches with input      *)
(* blobs (the input-blob slicing).  Command k of a batch carries _ref k,   *)
(* as generate_batch leaves it.                                            *)
(***************************************************************************)
MaxDemuxCmds == 3      \* commands of a batch with input blobs
MaxFindCmds == 2       \* commands of a retrieval batch
MaxReturned == 3       \* "returned" of a response entry is 0..MaxReturned
MaxOutBlobs == 4       \* output blobs of a response
MaxInBlobs == 3        \* input blobs of a batch
MaxCPQ == 2            \* commands_per_query is 1..MaxCPQ
MaxBPQ == 1            \* blobs_per_query is 0..MaxBPQ

BlobIds(n) == [j \in 1 .. n |-> j]

\* The command shapes line 133 tells apart, for the retrieval operation op.
DemuxCmdKinds(op) ==
    {[BaseCmd EXCEPT !.op = op, !.blobs = "true"],
     [BaseCmd EXCEPT !.op = op, !.blobs = "false"],
     [BaseCmd EXCEPT !.op = op, !.blobs = "absent"],
     [BaseCmd EXCEPT !.op = "FindEntity", !.blobs = "true"]}

Numbered(cmds) == [k \in DOMAIN cmds |-> [cmds[k] EXCEPT !._ref = k]]

InitDemuxOut ==
    \E n \in 1 .. MaxFindCmds, op \in blob_returning_commands :
      \E cmds \in [1 .. n -> DemuxCmdKinds(op)],
         returned \in [1 .. n -> 0 .. MaxReturned],
         nout \in 0 .. MaxOutBlobs,
         cpq \in 1 .. MaxCPQ :
           args = [handler |-> QuietHandler,
                   query |-> Numbered(cmds),
                   query_blobs |-> << >>,
                   response |-> ListResponse([k \in 1 .. n |->
                                   [status |-> 0, returned |-> returned[k]]]),
                   response_blobs |-> BlobIds(nout),
                   commands_per_query |-> cpq,
                   blobs_per_query |-> 0,
                   cmd_index_offset |-> NoIndex]

InitDemuxIn ==
    \E n \in 1 .. MaxDemuxCmds,
       nin \in 0 .. MaxInBlobs,
       cpq \in 1 .. MaxCPQ,
       bpq \in 0 .. MaxBPQ,
       off \in {NoIndex, 0, 4},
       resp \in {"list", "dict"} :
         args = [handler |-> QuietHandler,
                 query |-> Numbered([k \in 1 .. n |-> BaseCmd]),
                 query_blobs |-> BlobIds(nin),
                 response |-> IF resp = "list"
                              THEN ListResponse([k \in 1 .. n |->
                                      [status |-> 0, returned |-> 0]])
                              ELSE DictResponse(0),
                 response_blobs |-> << >>,
                 commands_per_query |-> cpq,
                 blobs_per_query |-> bpq,
                 cmd_index_offset |-> off]

InitDemux ==
    /\ NoRun
    /\ call = "input"
    /\ InitDemuxOut \/ InitDemuxIn
    /\ ret = [raised |-> "none", calls |-> << >>]

MapResponseToHandler ==
    /\ call = "input"
    /\ call' = "done"
    /\ ret' = map_response_to_handler(args)
    /\ UNCHANGED <<args, runVars>>

NextDemux == MapResponseToHandler

SpecDemux == InitDemux /\ [][NextDemux]_vars

(***************************************************************************)
(* execute_batch (ParallelQuery.py:18-89; CommonLibrary.execute_query is   *)
(* the same code).  The connection's answer to db.query is part of the     *)
(* argument a: the response a.r, the output blobs a.b and what             *)
(* last_query_ok() then says, a.ok.                                        *)
(***************************************************************************)
\* Lines 65-75: the statuses of the response, keyed as the dict statuses.
StatusesOf(r) ==
    CASE r.shape = "dict" -> {r.status}
      [] r.shape = "list" -> {r.items[k].status : k \in DOMAIN r.items}
      [] OTHER -> {}

\* Lines 79-83: the statuses that put a response on warn_list.
WarnStatuses_negative_only(statuses, success_statuses) ==
    {st \in statuses : st < 0}

WarnStatuses(statuses, success_statuses) ==
    {st \in statuses : st \notin success_statuses}

\* Lines 45, 60-63, 73-75: the result before the statuses are looked at.
TransportResult(ok, r) ==
    IF ~ok THEN 1
    ELSE IF r.shape \notin {"dict", "list"} THEN 1
    ELSE 0

\* Lines 50-59: the handler is run when the call succeeded and one is given.
RunsHandler(ok, response_handler) == ok /\ response_handler.present

execute_batch(a) ==
    LET m == IF RunsHandler(a.ok, a.response_handler)
             THEN map_response_to_handler(
                    [handler |-> a.response_handler,
                     query |-> a.q,
                     query_blobs |-> a.blobs,
                     response |-> a.r,
                     response_blobs |-> a.b,
                     commands_per_query |-> a.commands_per_query,
                     blobs_per_query |-> a.blobs_per_query,
                     cmd_index_offset |-> a.cmd_index])
             ELSE [raised |-> "none", calls |-> << >>]
        result == TransportResult(a.ok, a.r)
    IN  IF m.raised # "none" /\ a.strict_response_validation
        THEN [raised |-> m.raised, result |-> -1, calls |-> m.calls]
        ELSE [raised |-> "none",
              result |-> IF result # 1
                            /\ WarnStatuses(StatusesOf(a.r), a.success_statuses) # {}
                         THEN 2
                         ELSE result,
              calls |-> m.calls]

(***************************************************************************)
(* Specification of execute_batch alone.                                   *)
(***************************************************************************)
MaxExecCmds == 2       \* commands of a batch handed to execute_batch

\* Status codes of the server: error, success, empty, object exists.
StatusVals == {-1, 0, 1, 2}

Handlers(groups) ==
    {NoHandler}
    \cup {[present |-> TRUE, raise_at |-> g, kind |-> k] :
            g \in 0 .. groups, k \in {"Exception", "BaseException"}}

Responses(n) ==
    {ListResponse([k \in 1 .. n |-> [status |-> st[k], returned |-> 0]]) :
        st \in [1 .. n -> StatusVals]}
    \cup {DictResponse(st) : st \in StatusVals}
    \cup {OtherResponse}

InitExec ==
    /\ NoRun
    /\ call = "input"
    /\ \E n \in 1 .. MaxExecCmds,
          cpq \in 1 .. MaxCPQ,
          ok \in BOOLEAN,
          strict \in BOOLEAN,
          success \in {{0}, {0, 2}},
          off \in {NoIndex, 4} :
         \E r \in Responses(n), h \in Handlers(CeilDiv(n, cpq)) :
            args = [q |-> Numbered([k \in 1 .. n |-> BaseCmd]),
                    blobs |-> << >>,
                    r |-> r, b |-> << >>, ok |-> ok,
                    success_statuses |-> success,
                    response_handler |-> h,
                    commands_per_query |-> cpq,
                    blobs_per_query |-> 0,
                    strict_response_validation |-> strict,
                    cmd_index |-> off]
    /\ ret = [raised |-> "none", result |-> 0, calls |-> << >>]

ExecuteBatch ==
    /\ call = "input"
    /\ call' = "done"
    /\ ret' = execute_batch(args)
    /\ UNCHANGED <<args, runVars>>

NextExec == ExecuteBatch

SpecExec == InitExec /\ [][NextExec]_vars

(***************************************************************************)
(* do_batch (ParallelQuery.py:230-324).  What one call does before it      *)
(* touches the shared state: assembly, the handler's signature, the call   *)
(* of execute_batch and the batch's statistics.  env is what the outside   *)
(* does during the call: the connection's answer (r, b, ok), the duration  *)
(* it reports (time) and the handler's behaviour (raise_at, kind).         *)
(***************************************************************************)
\* Line 105: ParallelQuery.success_statuses.
success_statuses == {0, 2}

\* Line 320: the query time of a dry run.
DryRunTime == 1

\* worker_stats: {} (line 261) and a filled dict (lines 294-318).
EmptyStats ==
    [filled |-> FALSE, succeeded_queries |-> 0, succeeded_commands |-> 0,
     objects_existed |-> 0]

Stats(sq, sc, oe) ==
    [filled |-> TRUE, succeeded_queries |-> sq, succeeded_commands |-> sc,
     objects_existed |-> oe]

\* Lines 296-297, 307-310: the entries of the response r with status st
\* (filter_per_group yields nothing for an r that is not a list of dicts).
CountStatus(r, st) ==
    IF r.shape = "list"
    THEN Cardinality({k \in DOMAIN r.items : r.items[k].status = st})
    ELSE 0

\* Lines 311-318: the groups of commands_per_query responses that are all 0.
SucceededQueries(r, cpq) ==
    IF r.shape = "list"
    THEN Cardinality({i \in 0 .. CeilDiv(Len(r.items), cpq) - 1 :
            \A k \in DOMAIN r.items :
                (k - 1) \div cpq = i => r.items[k].status = 0})
    ELSE 0

\* A call that left by an exception, after the handler invocations calls.
Raised(kind, sent, calls) ==
    [raised |-> kind, sent |-> sent, result |-> -1, calls |-> calls,
     counts_error |-> FALSE, query_time |-> 0, worker_stats |-> EmptyStats]

\* A call that reached the appends of lines 323-324.
Returned(sent, result, calls, query_time, worker_stats) ==
    [raised |-> "none", sent |-> sent, result |-> result, calls |-> calls,
     counts_error |-> result = 1, query_time |-> query_time,
     worker_stats |-> worker_stats]

\* Lines 292-318: the statistics of a batch from execute_batch's result.
\* With result 0 the comprehension of lines 296-297 calls items() on the
\* keys of an r that is a dict, which raises AttributeError.
BatchStats(x, q, data, env, cpq) ==
    CASE x.result = 0 ->
            IF env.r.shape # "list"
            THEN Raised("Exception", TRUE, x.calls)
            ELSE Returned(TRUE, 0, x.calls, env.time,
                          Stats(Len(data), Len(q), CountStatus(env.r, 2)))
      [] x.result = 1 ->
            Returned(TRUE, 1, x.calls, 0, Stats(0, 0, 0))
      [] OTHER ->
            Returned(TRUE, 2, x.calls, 0,
                     Stats(SucceededQueries(env.r, cpq),
                           CountStatus(env.r, 0), CountStatus(env.r, 2)))

\* Lines 271-276: a handler must take 4 or 5 parameters.
BadSignature(arity) == arity # 0 /\ (arity < 4 \/ arity > 5)

\* cfg: the attributes of the object and of the generator that do_batch reads.
do_batch(cfg, env, batch_start, data) ==
    LET g == generate_batch(data)
    IN  IF g.raised # "none" THEN Raised("Exception", FALSE, << >>)
        ELSE IF cfg.dry_run
        THEN Returned(FALSE, -1, << >>, DryRunTime, EmptyStats)
        ELSE IF BadSignature(cfg.arity) THEN Raised("Exception", FALSE, << >>)
        ELSE LET x == execute_batch(
                        [q |-> g.q, blobs |-> g.blobs,
                         r |-> env.r, b |-> env.b, ok |-> env.ok,
                         success_statuses |-> success_statuses,
                         response_handler |->
                            IF cfg.arity = 0 THEN NoHandler
                            ELSE [present |-> TRUE, raise_at |-> env.raise_at,
                                  kind |-> env.kind],
                         commands_per_query |-> cfg.commands_per_query,
                         blobs_per_query |-> cfg.blobs_per_query,
                         strict_response_validation |-> cfg.strict,
                         cmd_index |-> batch_start])
             IN  IF x.raised # "none" THEN Raised(x.raised, TRUE, x.calls)
                 ELSE BatchStats(x, g.q, data, env, cfg.commands_per_query)

(***************************************************************************)
(* The run: query() (ParallelQuery.py:365-419, local path) infers the      *)
(* record structure and starts the workers (Parallelizer.run); each worker *)
(* (lines 326-351) walks its range in batches.                             *)
(***************************************************************************)
MaxRecords == 2        \* records of the source
MaxBatchSize == 2      \* batchsize is 1..MaxBatchSize
MaxThreads == 2        \* worker threads of a run

Threads == 0 .. MaxThreads - 1

\* The records a source is made of.
RecOne == [cmds |-> <<MkCmd("ref", 1, 0)>>, blobs |-> << >>]

RecTwo == [cmds |-> <<MkCmd("ref", 1, 0), MkCmd("ref", 0, 1)>>, blobs |-> <<1>>]

RecDangling == [cmds |-> <<MkCmd("image_ref", 0, 1)>>, blobs |-> << >>]

RecSelf == [cmds |-> <<MkCmd("image_ref", 1, 1)>>, blobs |-> << >>]

RecList == [cmds |-> <<ListCmd, MkCmd("image_ref", 0, 1)>>, blobs |-> << >>]

RunRecords == {RecOne, RecTwo, RecDangling, RecSelf, RecList}

\* Number of parameters of generator.response_handler (0: no handler).
HandlerArities == {0, 3, 4}

\* What get_last_query_time() reports.
QueryTimes == {3}

\* The responses of the connection to a batch of n commands: a list with at
\* most one status that is not 0, a dict, or something else.
RunResponses(n) ==
    {ListResponse([k \in 1 .. n |->
        [status |-> IF k = bad THEN st ELSE 0, returned |-> 0]]) :
        bad \in 0 .. n, st \in {-1, 2}}
    \cup {DictResponse(-1), DictResponse(0), OtherResponse}

RunEnvs(n, groups) ==
    [r : RunResponses(n), b : {<< >>}, ok : BOOLEAN, time : QueryTimes,
     raise_at : 0 .. groups, kind : {"Exception", "BaseException"}]

\* What is recorded of a worker's latest batch.
NoBatch ==
    [batch_start |-> -1, batch_end |-> -1, groups |-> 0, sent |-> FALSE,
     raised |-> "none", result |-> -1, calls |-> << >>, raise_at |-> 0,
     reported |-> 0, increments |-> 0, stats |-> << >>, times |-> << >>,
     quiet |-> [raised |-> "none", result |-> -1, stats |-> << >>, times |-> << >>]]

\* Lines 330-333.
TotalBatches_floor(start, end, size) == (end - start) \div size

TotalBatches(start, end, size) ==
    (end - start) \div size + (IF (end - start) % size > 0 THEN 1 ELSE 0)

\* Lines 338-339.
BatchStart(start, i, size) == start + i * size

BatchEnd(start, i, size, end) == Min(BatchStart(start, i, size) + size, end)

NewWorker(start, end, size) ==
    [pc |-> IF TotalBatches(start, end, size) > 0 THEN "batch" ELSE "done",
     start |-> start, end |-> end,
     total_batches |-> TotalBatches(start, end, size),
     i |-> 0, tmp |-> 0, after |-> "next",
     query_time |-> 0, worker_stats |-> EmptyStats,
     attempts |-> << >>, outcomes |-> << >>, last |-> NoBatch]

InitRun ==
    /\ call = "run"
    /\ args = << >>
    /\ ret = << >>
    /\ \E n \in 0 .. MaxRecords :
         \E recs \in [1 .. n -> RunRecords], arity \in HandlerArities,
            strict \in BOOLEAN :
              generator = [records |-> recs, arity |-> arity, strict |-> strict]
    /\ dry_run \in BOOLEAN
    /\ phase = "constructed"
    /\ batchsize = 1
    /\ commands_per_query = 1
    /\ blobs_per_query = 0
    /\ error_counter = 0
    /\ times_arr = << >>
    /\ actual_stats = << >>
    /\ wk = << >>

\* Lines 404-411: the structure of the first record; a first record without
\* blobs leaves blobs_per_query as it was.
InferredCPQ(records, old) == IF Len(records) > 0 THEN Len(records[1].cmds) ELSE old

InferredBPQ(records, old) ==
    IF Len(records) > 0 /\ Len(records[1].blobs) > 0
    THEN Len(records[1].blobs)
    ELSE old

\* The ranges the workers are given: the index range [0, total) cut into
\* one contiguous range per worker.
Partitions(total) ==
    {c \in [0 .. MaxThreads -> 0 .. total] :
        /\ c[0] = 0
        /\ c[MaxThreads] = total
        /\ \A t \in Threads : c[t] <= c[t + 1]}

\* query(generator, batchsize, numthreads): lines 400-419, then the start of
\* the worker threads by Parallelizer.run.
Query ==
    /\ phase = "constructed"
    /\ phase' = "running"
    /\ commands_per_query' = InferredCPQ(generator.records, commands_per_query)
    /\ blobs_per_query' = InferredBPQ(generator.records, blobs_per_query)
    /\ \E size \in 1 .. MaxBatchSize, c \in Partitions(Len(generator.records)) :
          /\ batchsize' = size
          /\ wk' = [t \in Threads |-> NewWorker(c[t], c[t + 1], size)]
    /\ error_counter' = 0
    /\ times_arr' = << >>
    /\ actual_stats' = << >>
    /\ UNCHANGED <<pureVars, generator, dry_run>>

RunCfg ==
    [dry_run |-> dry_run, arity |-> generator.arity, strict |-> generator.strict,
     commands_per_query |-> commands_per_query,
     blobs_per_query |-> blobs_per_query]

\* What a pass of the loop of lines 336-348 leaves in the worker w when
\* do_batch meets env: the worker's next position and what it is about to
\* write.  An exception that is no Exception is not caught at line 344 and
\* ends the thread.
AfterBatch(w, cfg, env, batch_start, batch_end, data, groups) ==
    LET p == do_batch(cfg, env, batch_start, data)
        quiet == do_batch(cfg, [env EXCEPT !.raise_at = 0], batch_start, data)
        made == [g \in DOMAIN p.calls |-> p.calls[g].index]
    IN  [w EXCEPT
           !.pc = CASE p.raised = "BaseException" -> "dead"
                    [] p.raised = "Exception" -> "inc_read"
                    [] p.counts_error -> "inc_read"
                    [] OTHER -> "append_times",
           !.after = IF p.raised = "none" THEN "append" ELSE "next",
           !.query_time = p.query_time,
           !.worker_stats = p.worker_stats,
           !.attempts = Append(@, <<batch_start, batch_end>>),
           !.outcomes = Append(@, [raised |-> p.raised, result |-> p.result,
                                   query_time |-> p.query_time,
                                   worker_stats |-> p.worker_stats]),
           !.last =
              [batch_start |-> batch_start, batch_end |-> batch_end,
               groups |-> groups, sent |-> p.sent,
               raised |-> p.raised, result |-> p.result,
               calls |-> made,
               raise_at |-> IF p.sent /\ cfg.arity # 0 THEN env.raise_at ELSE 0,
               reported |-> IF p.sent /\ p.raised = "none" THEN env.time ELSE 0,
               increments |-> 0, stats |-> << >>, times |-> << >>,
               quiet |-> [raised |-> quiet.raised,
                          result |-> quiet.result,
                          stats |-> IF quiet.raised = "none"
                                    THEN <<quiet.worker_stats>>
                                    ELSE << >>,
                          times |-> IF quiet.raised = "none"
                                    THEN <<quiet.query_time>>
                                    ELSE << >>]]]

\* The i-th pass of the loop of lines 336-348 up to the first access to the
\* shared state: do_batch's work on the worker's own connection.
DoBatch(t) ==
    /\ phase = "running"
    /\ wk[t].pc = "batch"
    /\ LET w == wk[t]
           batch_start == BatchStart(w.start, w.i, batchsize)
           batch_end == BatchEnd(w.start, w.i, batchsize, w.end)
           data == Slice(generator.records, batch_start, batch_end)
           n == Len(FlatCmds(data))
           groups == CeilDiv(n, commands_per_query)
       IN  \E next \in {AfterBatch(w, RunCfg, env, batch_start, batch_end,
                                   data, groups) : env \in RunEnvs(n, groups)} :
              wk' = [wk EXCEPT ![t] = next]
    /\ UNCHANGED <<pureVars, generator, dry_run, phase, batchsize,
                   commands_per_query, blobs_per_query, error_counter,
                   times_arr, actual_stats>>

\* The end of a pass: line 336 goes on to the next batch.
Advance(w) ==
    [w EXCEPT !.i = @ + 1,
              !.pc = IF w.i + 1 < w.total_batches THEN "batch" ELSE "done"]

\* self.error_counter += 1 (lines 299 and 348) reads the counter ...
IncRead(t) ==
    /\ phase = "running"
    /\ wk[t].pc = "inc_read"
    /\ wk' = [wk EXCEPT ![t] = [@ EXCEPT !.pc = "inc_write", !.tmp = error_counter]]
    /\ UNCHANGED <<pureVars, generator, dry_run, phase, batchsize,
                   commands_per_query, blobs_per_query, error_counter,
                   times_arr, actual_stats>>

\* ... and then writes it.
IncWrite(t) ==
    /\ phase = "running"
    /\ wk[t].pc = "inc_write"
    /\ error_counter' = wk[t].tmp + 1
    /\ wk' = [wk EXCEPT ![t] =
                LET w == [@ EXCEPT !.last.increments = @ + 1]
                IN  IF w.after = "append"
                    THEN [w EXCEPT !.pc = "append_times"]
                    ELSE Advance(w)]
    /\ UNCHANGED <<pureVars, generator, dry_run, phase, batchsize,
                   commands_per_query, blobs_per_query, times_arr, actual_stats>>

\* Line 323.
AppendTimes(t) ==
    /\ phase = "running"
    /\ wk[t].pc = "append_times"
    /\ times_arr' = Append(times_arr, wk[t].query_time)
    /\ wk' = [wk EXCEPT ![t] =
                [@ EXCEPT !.pc = "append_stats",
                          !.last.times = Append(@, wk[t].query_time)]]
    /\ UNCHANGED <<pureVars, generator, dry_run, phase, batchsize,
                   commands_per_query, blobs_per_query, error_counter,
                   actual_stats>>

\* Line 324.
AppendStats_overwriting(t) ==
    /\ phase = "running"
    /\ wk[t].pc = "append_stats"
    /\ actual_stats' = <<wk[t].worker_stats>>
    /\ wk' = [wk EXCEPT ![t] =
                Advance([@ EXCEPT !.last.stats = Append(@, wk[t].worker_stats)])]
    /\ UNCHANGED <<pureVars, generator, dry_run, phase, batchsize,
                   commands_per_query, blobs_per_query, error_counter,
                   times_arr>>

AppendStats(t) ==
    /\ phase = "running"
    /\ wk[t].pc = "append_stats"
    /\ actual_stats' = Append(actual_stats, wk[t].worker_stats)
    /\ wk' = [wk EXCEPT ![t] =
                Advance([@ EXCEPT !.last.stats = Append(@, wk[t].worker_stats)])]
    /\ UNCHANGED <<pureVars, generator, dry_run, phase, batchsize,
                   commands_per_query, blobs_per_query, error_counter,
                   times_arr>>

WorkerStep(t) ==
    DoBatch(t) \/ IncRead(t) \/ IncWrite(t) \/ AppendTimes(t) \/ AppendStats(t)

\* The run returns to query() (line 419) once every worker thread has ended.
Join ==
    /\ phase = "running"
    /\ \A t \in DOMAIN wk : wk[t].pc \in {"done", "dead"}
    /\ phase' = "finished"
    /\ UNCHANGED <<pureVars, generator, dry_run, batchsize, commands_per_query,
                   blobs_per_query, error_counter, times_arr, actual_stats, wk>>

\* Lines 353-363: sum([stat[key] for stat in self.actual_stats]); the entry
\* of a dry run is an empty dict, for which stat[key] raises KeyError.
SumStat(stats, key) ==
    IF \E k \in DOMAIN stats : ~stats[k].filled
    THEN [raised |-> "KeyError", value |-> 0]
    ELSE [raised |-> "none",
          value |-> SumSeq([k \in DOMAIN stats |-> stats[k][key]])]

\* Lines 421-451: what print_stats prints of the batches.  A quotient is
\* kept as numerator and denominator.
StatsReport(times, errors) ==
    LET total_queries_exec == Len(times)
    IN  [total_queries_exec |-> total_queries_exec,
         all_failed |-> total_queries_exec = 0,
         mean |-> IF total_queries_exec = 0 THEN [num |-> 0, den |-> 1]
                  ELSE [num |-> SumSeq(times), den |-> total_queries_exec],
         throughput_defined |-> total_queries_exec # 0 /\ errors = 0,
         errors_shown |-> total_queries_exec # 0 /\ errors > 0,
         err_perc |-> IF total_queries_exec # 0 /\ errors > 0
                      THEN [num |-> 100 * errors, den |-> total_queries_exec]
                      ELSE [num |-> 0, den |-> 1]]

\* An operation on the object after the run; ret is what it returns or prints.
AfterRun(op, value) ==
    /\ phase = "finished"
    /\ call' = op
    /\ ret' = value
    /\ UNCHANGED <<args, runVars>>

PrintStats_consuming ==
    /\ phase = "finished"
    /\ call' = "print_stats"
    /\ ret' = StatsReport(times_arr, error_counter)
    /\ times_arr' = << >>
    /\ UNCHANGED <<args, generator, dry_run, phase, batchsize,
                   commands_per_query, blobs_per_query, error_counter,
                   actual_stats, wk>>

PrintStats == AfterRun("print_stats", StatsReport(times_arr, error_counter))

GetSucceededQueries ==
    AfterRun("get_succeeded_queries", SumStat(actual_stats, "succeeded_queries"))

GetSucceededCommands ==
    AfterRun("get_succeeded_commands", SumStat(actual_stats, "succeeded_commands"))

GetObjectsExisted ==
    AfterRun("get_objects_existed", SumStat(actual_stats, "objects_existed"))

(***************************************************************************)
(* The distributed path of query() (lines 376-399).  DaskManager.run       *)
(* gives one result per worker process, or None for a process that did not *)
(* finish; a process runs the batches of its partition with the logic of   *)
(* worker() and do_batch on an object of its own.                          *)
(***************************************************************************)
NoResult == [none |-> TRUE, times_arr |-> << >>, error_counter |-> 0,
             succeeded_queries |-> 0, succeeded_commands |-> 0,
             objects_existed |-> 0]

\* The batches among outcomes that did_batch left by an exception or with
\* result 1: each is one increment of the process's own error counter.
RECURSIVE ErrorsIn(_)
ErrorsIn(outcomes) ==
    IF outcomes = << >> THEN 0
    ELSE (IF Head(outcomes).raised # "none" \/ Head(outcomes).result = 1
          THEN 1 ELSE 0) + ErrorsIn(Tail(outcomes))

\* The entries the batches among outcomes appended: field f of each batch
\* that returned.
RECURSIVE AppendedIn(_, _)
AppendedIn(outcomes, f) ==
    IF outcomes = << >> THEN << >>
    ELSE (IF Head(outcomes).raised = "none" THEN <<Head(outcomes)[f]>> ELSE << >>)
         \o AppendedIn(Tail(outcomes), f)

\* The result of the process that ran the batches of w with the outcomes
\* recorded in w.
ProcessResult(w) ==
    IF w.pc = "dead" THEN NoResult
    ELSE LET stats == AppendedIn(w.outcomes, "worker_stats")
         IN  [none |-> FALSE,
              times_arr |-> AppendedIn(w.outcomes, "query_time"),
              error_counter |-> ErrorsIn(w.outcomes),
              succeeded_queries |-> SumStat(stats, "succeeded_queries").value,
              succeeded_commands |-> SumStat(stats, "succeeded_commands").value,
              objects_existed |-> SumStat(stats, "objects_existed").value]

\* Lines 386-395 from the result at position k on: agg is the aggregator's
\* times_arr, error_counter and actual_stats.
RECURSIVE merge_results_from(_, _, _)
merge_results_from(k, results, agg) ==
    IF k > Len(results) THEN agg
    ELSE merge_results_from(k + 1, results,
            IF results[k].none THEN agg
            ELSE [times_arr |-> agg.times_arr \o results[k].times_arr,
                  error_counter |-> agg.error_counter + results[k].error_counter,
                  actual_stats |->
                     Append(agg.actual_stats,
                            Stats(results[k].succeeded_queries,
                                  results[k].succeeded_commands,
                                  results[k].objects_existed))])

\* Lines 377-395: after _reset, the results are merged into the aggregator.
merge_results(results) ==
    merge_results_from(1, results,
        [times_arr |-> << >>, error_counter |-> 0, actual_stats |-> << >>])

NextRun ==
    \/ Query
    \/ \E t \in Threads : WorkerStep(t)
    \/ Join
    \/ PrintStats
    \/ GetSucceededQueries
    \/ GetSucceededCommands
    \/ GetObjectsExisted

SpecRun == InitRun /\ [][NextRun]_vars

(***************************************************************************)
(* The run of the specification's scenario: 10 records of one command, 4   *)
(* records to a batch, 2 workers.  The dispatcher cuts the index range     *)
(* into slices of batchsize records and gives every worker a contiguous    *)
(* range of whole slices.                                                  *)
(***************************************************************************)
ScenarioRecords == 10

ScenarioBatchSize == 4

ScenarioWorkers == 2

\* The ranges of workers that each own whole slices of size records of
\* [0, total).
SliceRanges(total, size, workers) ==
    {c \in [0 .. workers -> 0 .. total] :
        /\ c[0] = 0
        /\ c[workers] = total
        /\ \A t \in 0 .. workers - 1 : c[t] <= c[t + 1]
        /\ \A t \in 0 .. workers : c[t] % size = 0 \/ c[t] = total}

InitScenario ==
    /\ call = "run"
    /\ args = << >>
    /\ ret = << >>
    /\ generator = [records |-> [k \in 1 .. ScenarioRecords |-> RecOne],
                    arity |-> 0, strict |-> FALSE]
    /\ dry_run = FALSE
    /\ phase = "constructed"
    /\ batchsize = 1
    /\ commands_per_query = 1
    /\ blobs_per_query = 0
    /\ error_counter = 0
    /\ times_arr = << >>
    /\ actual_stats = << >>
    /\ wk = << >>

\* query(generator, batchsize=4, numthreads=2): lines 400-419, then the
\* start of the worker threads.
ScenarioQuery ==
    /\ phase = "constructed"
    /\ phase' = "running"
    /\ commands_per_query' = InferredCPQ(generator.records, commands_per_query)
    /\ blobs_per_query' = InferredBPQ(generator.records, blobs_per_query)
    /\ batchsize' = ScenarioBatchSize
    /\ \E c \in SliceRanges(Len(generator.records), ScenarioBatchSize,
                            ScenarioWorkers) :
          wk' = [t \in 0 .. ScenarioWorkers - 1 |->
                    NewWorker(c[t], c[t + 1], ScenarioBatchSize)]
    /\ error_counter' = 0
    /\ times_arr' = << >>
    /\ actual_stats' = << >>
    /\ UNCHANGED <<pureVars, generator, dry_run>>

NextScenario ==
    \/ ScenarioQuery
    \/ \E t \in 0 .. ScenarioWorkers - 1 : WorkerStep(t)
    \/ Join
    \/ PrintStats
    \/ GetSucceededQueries
    \/ GetSucceededCommands
    \/ GetObjectsExisted

SpecScenario == InitScenario /\ [][NextScenario]_vars

(***************************************************************************)
(* Specification of do_batch alone (ParallelQuery.py:230-324): one worker  *)
(* over the whole source stands before its i-th batch; the connection and  *)
(* the handler behave as args.env says.  do_batch's own writes to the      *)
(* shared state (lines 299, 323-324) are part of the step.                 *)
(***************************************************************************)
MaxBad == 2            \* statuses of a response that are not 0

\* A record of three commands and no blob.
RecThree ==
    [cmds |-> <<MkCmd("ref", 1, 0), MkCmd("ref", 0, 1), MkCmd("ref", 0, 1)>>,
     blobs |-> << >>]

StatRecords == {RecOne, RecTwo, RecThree}

\* The responses to a batch of n commands: a list of n entries of which at
\* most MaxBad have a status that is not 0, a dict, or something else.
StatStatuses(n) ==
    UNION {{[k \in 1 .. n |-> IF k \in bad THEN st[k] ELSE 0] :
              st \in [bad -> {-1, 2}]} :
           bad \in {x \in SUBSET (1 .. n) : Cardinality(x) <= MaxBad}}

StatResponses(n) ==
    {ListResponse([k \in 1 .. n |-> [status |-> st[k], returned |-> 0]]) :
        st \in StatStatuses(n)}
    \cup {DictResponse(-1), DictResponse(0), OtherResponse}

\* What the handler does: it raises at none of the groups, or at one of them
\* with an exception of either kind; there is nothing to choose where no
\* handler is given or the call fails before the handler is reached.
StatHandlers(groups, arity, ok) ==
    {[raise_at |-> 0, kind |-> "Exception"]}
    \cup (IF arity = 0 \/ ~ok THEN {}
          ELSE [raise_at : 1 .. groups, kind : {"Exception", "BaseException"}])

StatEnvs(n, groups, arity) ==
    UNION {{[r |-> r, b |-> << >>, ok |-> ok, time |-> time,
             raise_at |-> h.raise_at, kind |-> h.kind] :
               r \in StatResponses(n), time \in QueryTimes,
               h \in StatHandlers(groups, arity, ok)} : ok \in BOOLEAN}

\* The records of the i-th batch of a worker over the whole source.
StatBatch(i) ==
    Slice(generator.records,
          BatchStart(0, i, batchsize),
          BatchEnd(0, i, batchsize, Len(generator.records)))

InitStats ==
    /\ call = "batch"
    /\ ret = << >>
    /\ \E n \in 1 .. MaxRecords :
         \E recs \in [1 .. n -> StatRecords], arity \in {0, 4} :
            \E strict \in IF arity = 0 THEN {FALSE} ELSE BOOLEAN :
              generator = [records |-> recs, arity |-> arity, strict |-> strict]
    /\ dry_run = FALSE
    /\ phase = "running"
    /\ batchsize \in 1 .. MaxBatchSize
    /\ commands_per_query = InferredCPQ(generator.records, 1)
    /\ blobs_per_query = InferredBPQ(generator.records, 0)
    /\ error_counter = 0
    /\ times_arr = << >>
    /\ actual_stats = << >>
    /\ wk = << >>
    /\ \E i \in 0 .. TotalBatches(0, Len(generator.records), batchsize) - 1 :
         LET n == Len(FlatCmds(StatBatch(i)))
         IN  \E env \in StatEnvs(n, CeilDiv(n, commands_per_query),
                                 generator.arity) :
                args = [i |-> i, env |-> env]

\* do_batch(db, generator, batch_start, batch_end): ret is how it ended.
DoBatchAlone ==
    /\ call = "batch"
    /\ call' = "done"
    /\ \E p \in {do_batch(RunCfg, args.env,
                           BatchStart(0, args.i, batchsize), StatBatch(args.i))} :
           /\ ret' = p
           /\ error_counter' = IF p.counts_error
                                THEN error_counter + 1
                                ELSE error_counter
           /\ times_arr' = IF p.raised = "none"
                            THEN Append(times_arr, p.query_time)
                            ELSE times_arr
           /\ actual_stats' = IF p.raised = "none"
                               THEN Append(actual_stats, p.worker_stats)
                               ELSE actual_stats
    /\ UNCHANGED <<args, generator, dry_run, phase, batchsize,
                   commands_per_query, blobs_per_query, wk>>

NextStats == DoBatchAlone

SpecStats == InitStats /\ [][NextStats]_vars

(***************************************************************************)
(* Specification of successive calls of query() on one object              *)
(* (ParallelQuery.py:365-419, local path).  Each call is taken with one    *)
(* worker, whose batches run one after the other; the connection answers   *)
(* every command with status 0, or fails every call, and the handler does  *)
(* not raise.                                                              *)
(***************************************************************************)
MaxQueries == 2        \* calls of query() on the object

RequeryRecords == {RecOne, RecTwo, RecThree}

\* What the connection does with a batch of n commands.
RequeryEnv(n, ok) ==
    [r |-> ListResponse([k \in 1 .. n |-> [status |-> 0, returned |-> 0]]),
     b |-> << >>, ok |-> ok, time |-> CHOOSE t \in QueryTimes : TRUE,
     raise_at |-> 0, kind |-> "Exception"]

\* The loop of worker (lines 336-348) of the only worker from its i-th batch
\* on; acc is what the batches before have left in the shared state, and
\* the handler invocations made.
RECURSIVE run_one_worker(_, _, _, _, _, _)
run_one_worker(cfg, records, size, ok, i, acc) ==
    IF i >= TotalBatches(0, Len(records), size)
    THEN acc
    ELSE LET batch_start == BatchStart(0, i, size)
             data == Slice(records, batch_start,
                           BatchEnd(0, i, size, Len(records)))
             ps == {do_batch(cfg, RequeryEnv(Len(FlatCmds(data)), ok),
                             batch_start, data)}
             p == CHOOSE x \in ps : TRUE
         IN  run_one_worker(cfg, records, size, ok, i + 1,
                [error_counter |-> acc.error_counter
                                     + (IF p.raised # "none" \/ p.counts_error
                                        THEN 1 ELSE 0),
                 times_arr |-> IF p.raised = "none"
                               THEN Append(acc.times_arr, p.query_time)
                               ELSE acc.times_arr,
                 actual_stats |-> IF p.raised = "none"
                                  THEN Append(acc.actual_stats, p.worker_stats)
                                  ELSE acc.actual_stats,
                 calls |-> acc.calls \o p.calls])

InitRequery ==
    /\ call = "new"
    /\ args = 0
    /\ ret = [calls |-> << >>]
    /\ generator = [records |-> << >>, arity |-> 0, strict |-> FALSE]
    /\ dry_run = FALSE
    /\ phase = "constructed"
    /\ batchsize = 1
    /\ commands_per_query = 1
    /\ blobs_per_query = 0
    /\ error_counter = 0
    /\ times_arr = << >>
    /\ actual_stats = << >>
    /\ wk = << >>

\* The args-th call query(generator, batchsize, numthreads = 1) from its
\* first line to its return.
QueryAgain ==
    /\ args < MaxQueries
    /\ args' = args + 1
    /\ call' = "queried"
    /\ phase' = "finished"
    /\ \E n \in 0 .. MaxRecords :
         \E recs \in [1 .. n -> RequeryRecords], arity \in {0, 4},
            size \in 1 .. MaxBatchSize, ok \in BOOLEAN :
              /\ generator' = [records |-> recs, arity |-> arity, strict |-> FALSE]
              /\ batchsize' = size
              /\ commands_per_query' = InferredCPQ(recs, commands_per_query)
              /\ blobs_per_query' = InferredBPQ(recs, blobs_per_query)
              /\ \E out \in {run_one_worker(
                                [dry_run |-> dry_run, arity |-> arity,
                                 strict |-> FALSE,
                                 commands_per_query |->
                                    InferredCPQ(recs, commands_per_query),
                                 blobs_per_query |->
                                    InferredBPQ(recs, blobs_per_query)],
                                recs, size, ok, 0,
                                [error_counter |-> 0, times_arr |-> << >>,
                                 actual_stats |-> << >>, calls |-> << >>])} :
                    /\ error_counter' = out.error_counter
                    /\ times_arr' = out.times_arr
                    /\ actual_stats' = out.actual_stats
                    /\ ret' = [calls |-> out.calls]
    /\ UNCHANGED <<dry_run, wk>>

NextRequery == QueryAgain

SpecRequery == InitRequery /\ [][NextRequery]_vars

(***************************************************************************)
(* Claims about batch assembly.                                            *)
(***************************************************************************)
\* The pointer fields of a command, in one fixed order.
PtrFields(values) ==
    <<values.image_ref, values.video_ref, values.is_connected_to.ref,
      values.connect.ref, values.src, values.dst, values.ref>>
    \o values.is_connected_to.any \o values.is_connected_to.all

\* Every command is a dict command and every pointer names a ref defined by
\* an earlier command of its own record.
LocalRefsOnly(data) ==
    LET flat == FlatCmds(data)
    IN  \A pos \in DOMAIN flat :
          /\ ~flat[pos].list
          /\ \A v \in Pointers(flat[pos]) :
                \E e \in 1 .. pos - 1 :
                    RecordAt(data, e) = RecordAt(data, pos) /\ flat[e]._ref = v

\* C1: for a batch of dict commands whose pointers only reference refs
\* defined earlier in the same record, generate_batch returns, every command
\* that defines a _ref gets its 1-based batch position as _ref, and every
\* pointer field holds the batch position of a command of the same record
\* that defined the referenced local ref.
C1_RefsArePositions ==
    (call = "done" /\ LocalRefsOnly(args.data)) =>
        LET flat == FlatCmds(args.data)
        IN  /\ ret.raised = "none"
            /\ Len(ret.q) = Len(flat)
            /\ \A pos \in DOMAIN flat :
                  /\ flat[pos]._ref # 0 => ret.q[pos]._ref = pos
                  /\ Len(PtrFields(ret.q[pos])) = Len(PtrFields(flat[pos]))
                  /\ \A j \in DOMAIN PtrFields(flat[pos]) :
                        PtrFields(flat[pos])[j] # 0 =>
                          \E e \in DOMAIN flat :
                              /\ RecordAt(args.data, e) = RecordAt(args.data, pos)
                              /\ flat[e]._ref = PtrFields(flat[pos])[j]
                              /\ PtrFields(ret.q[pos])[j] = e

\* A batch of two records that both define the same local ref, the second
\* one pointing at it, has been assembled.
C1_Witness ==
    /\ call = "done"
    /\ LocalRefsOnly(args.data)
    /\ Len(args.data) >= 2
    /\ \E pos \in DOMAIN FlatCmds(args.data) :
          /\ RecordAt(args.data, pos) = 2
          /\ Pointers(FlatCmds(args.data)[pos]) # {}
          /\ \E e \in DOMAIN args.data[1].cmds :
                args.data[1].cmds[e]._ref \in Pointers(FlatCmds(args.data)[pos])

(***************************************************************************)
(* Claims about the demultiplexer.                                         *)
(***************************************************************************)
\* The width the specification gives group g (0-based): the returned counts
\* of its retrieval commands that asked for blobs.
ClaimedWidth(a, g) ==
    SumSeq([k \in 1 .. Len(a.query) |->
        IF /\ (k - 1) \div a.commands_per_query = g
           /\ a.response.shape = "list"
           /\ k <= Len(a.response.items)
           /\ a.query[k].op \in {"FindImage", "FindBlob", "FindVideo",
                                 "FindDescriptor", "FindBoundingBox"}
           /\ a.query[k].blobs = "true"
        THEN a.response.items[k].returned
        ELSE 0])

\* The sum of the widths of the groups before g.
ClaimedStart(a, g) == SumSeq([h \in 1 .. g |-> ClaimedWidth(a, h - 1)])

GroupCount(a) == CeilDiv(Len(a.query), a.commands_per_query)

\* C3 as stated: every group's output-blob slice has the group's width as
\* its length and starts at the sum of the widths of the groups before it.
C3_EverySliceHasItsWidth ==
    call = "done" =>
        /\ Len(ret.calls) = GroupCount(args)
        /\ \A g \in DOMAIN ret.calls :
              LET w == ClaimedWidth(args, g - 1)
                  s == ClaimedStart(args, g - 1)
              IN  /\ ~ret.calls[g].response_blobs.none
                  /\ Len(ret.calls[g].response_blobs.blobs) = w
                  /\ ret.calls[g].response_blobs.blobs
                        = Slice(args.response_blobs, s, s + w)

\* C3, amended: the same for every group for which the response holds at
\* least start + width output blobs; every other group is handed None.
C3_SliceHasItsWidthOrIsNone ==
    call = "done" =>
        /\ Len(ret.calls) = GroupCount(args)
        /\ \A g \in DOMAIN ret.calls :
              LET w == ClaimedWidth(args, g - 1)
                  s == ClaimedStart(args, g - 1)
              IN  IF Len(args.response_blobs) >= s + w
                  THEN /\ ~ret.calls[g].response_blobs.none
                       /\ Len(ret.calls[g].response_blobs.blobs) = w
                       /\ ret.calls[g].response_blobs.blobs
                             = SubSeq(args.response_blobs, s + 1, s + w)
                  ELSE ret.calls[g].response_blobs.none

\* Two groups, the first of width 3: the second one's slice starts 3 later.
C3_Witness ==
    /\ call = "done"
    /\ Len(ret.calls) = 2
    /\ ClaimedWidth(args, 0) = 3
    /\ ClaimedWidth(args, 1) = 1
    /\ ret.calls[1].response_blobs = SomeSlice(<<1, 2, 3>>)
    /\ ret.calls[2].response_blobs = SomeSlice(<<4>>)

ClaimedRemaining(a, g) ==
    IF Len(a.response_blobs) >= ClaimedStart(a, g)
    THEN Len(a.response_blobs) - ClaimedStart(a, g)
    ELSE 0

\* C5: when fewer output blobs remain after the cursor than a group's
\* width, map_response_to_handler does not raise and the handler is still
\* invoked for that group, with None as its output-blob slice.
C5_ShortStreamGivesNone ==
    call = "done" =>
        \A g \in 1 .. GroupCount(args) :
            ClaimedRemaining(args, g - 1) < ClaimedWidth(args, g - 1) =>
                /\ ret.raised = "none"
                /\ g \in DOMAIN ret.calls
                /\ ret.calls[g].response_blobs = NoneSlice

\* A second group of width 2 found one blob left after the first group.
C5_Witness ==
    /\ call = "done"
    /\ Len(ret.calls) = 2
    /\ ClaimedWidth(args, 0) = 1
    /\ ClaimedWidth(args, 1) = 2
    /\ Len(args.response_blobs) = 2
    /\ ret.calls[1].response_blobs = SomeSlice(<<1>>)
    /\ ret.calls[2].response_blobs = NoneSlice

(***************************************************************************)
(* Claims about execute_batch.                                             *)
(***************************************************************************)
\* Every per-command status of the response is in the success set.
AllStatusesSucceed(a) ==
    CASE a.r.shape = "dict" -> a.r.status \in a.success_statuses
      [] a.r.shape = "list" ->
            \A k \in DOMAIN a.r.items : a.r.items[k].status \in a.success_statuses
      [] OTHER -> TRUE

\* C2 as stated: result 0 iff all statuses are in the success set, result 1
\* iff last_query_ok() is false, result 2 in every other case.
C2_ClassifiedByStatusesAndTransport ==
    (call = "done" /\ ret.raised = "none") =>
        /\ ret.result = 0 <=> AllStatusesSucceed(args)
        /\ ret.result = 1 <=> ~args.ok
        /\ ret.result \in {0, 1, 2}

\* C2, amended: whenever execute_batch returns, the result is 1 iff
\* last_query_ok() is false or the response is neither a dict nor a list, it
\* is 0 iff it is not 1 and all statuses are in the success set, and it is 2
\* in every other case.
C2_Classified ==
    (call = "done" /\ ret.raised = "none") =>
        LET failed == ~args.ok \/ args.r.shape \notin {"dict", "list"}
        IN  /\ ret.result = 1 <=> failed
            /\ ret.result = 0 <=> (~failed /\ AllStatusesSucceed(args))
            /\ ret.result = 2 <=> (~failed /\ ~AllStatusesSucceed(args))

\* An accepted call with statuses 0 and 2 under the success set {0} has
\* been classified as 2.
C2_Witness ==
    /\ call = "done"
    /\ args.ok
    /\ args.r.shape = "list"
    /\ Len(args.r.items) = 2
    /\ args.r.items[1].status = 0
    /\ args.r.items[2].status = 2
    /\ args.success_statuses = {0}
    /\ ret.raised = "none"
    /\ ret.result = 2


(***************************************************************************)
(* Claims about a batch in a run.                                          *)
(***************************************************************************)
\* The worker w has left the batch recorded in w.last: it is at the head of
\* its next pass, has finished its range, or its thread has ended.
Ended(w) == w.last.batch_start >= 0 /\ w.pc \in {"batch", "done", "dead"}

\* The commands of the batch recorded in l, as the source supplied them.
SuppliedCmds(l) == FlatCmds(Slice(generator.records, l.batch_start, l.batch_end))

\* The handler raised during the batch recorded in l: it was invoked as
\* often as it takes to make it raise.
HandlerRaised(l) == l.raise_at > 0 /\ Len(l.calls) >= l.raise_at

\* The invocations s, s + 1, ... , s + k - 1.
IndicesFrom(s, k) == [g \in 1 .. k |-> s + g - 1]

\* C6 as stated: whenever a batch ends with result 0 or 2 and a handler is
\* supplied, the handler was invoked once for each of the batch's
\* ceil(len(commands)/C) groups, in ascending order, with index s + g for
\* group g of a batch that starts at record s.
C6_HandlerOncePerGroup ==
    \A t \in DOMAIN wk :
        LET l == wk[t].last
        IN  (l.result \in {0, 2} /\ generator.arity # 0) =>
                l.calls = IndicesFrom(l.batch_start, l.groups)

\* C6, amended: whenever a batch ends with result 0 or 2 and a handler is
\* supplied, the handler was invoked once for each group in ascending order
\* with index s + g, up to and including the first group at which it raised;
\* for every group when it did not raise.
C6_HandlerOncePerGroupUntilItRaises ==
    \A t \in DOMAIN wk :
        LET l == wk[t].last
        IN  (l.result \in {0, 2} /\ generator.arity # 0) =>
                l.calls = IndicesFrom(l.batch_start,
                                      IF l.raise_at \in 1 .. l.groups
                                      THEN l.raise_at
                                      ELSE l.groups)

\* A later batch of a worker, of two groups, for each of which the handler
\* was invoked.
C6_Witness ==
    \E t \in DOMAIN wk :
        LET l == wk[t].last
        IN  /\ l.result \in {0, 2}
            /\ generator.arity # 0
            /\ l.batch_start >= 1
            /\ l.groups >= 2
            /\ Len(l.calls) = l.groups

\* C7 as stated: for every batch that ended with result 1 the handler was
\* invoked for no group, the error counter was incremented exactly once and
\* the batch's statistics entry holds three zeros.
C7_FailedBatchSkipsHandler ==
    \A t \in DOMAIN wk :
        LET l == wk[t].last
        IN  (Ended(wk[t]) /\ l.result = 1) =>
                /\ l.calls = << >>
                /\ l.increments = 1
                /\ l.stats = <<Stats(0, 0, 0)>>

\* C8 as stated: when the handler raises during a batch, without strict
\* validation the batch's result and appended statistics and time are those
\* of the same batch with a handler that does not raise; with strict
\* validation the batch appends neither statistics nor a time, the worker
\* counts one error and goes on.
C8_HandlerFailureStaysInItsBatch ==
    \A t \in DOMAIN wk :
        LET w == wk[t]
            l == w.last
        IN  (Ended(w) /\ HandlerRaised(l)) =>
                IF generator.strict
                THEN /\ l.raised # "none"
                     /\ l.stats = << >>
                     /\ l.times = << >>
                     /\ l.increments = 1
                     /\ w.pc \in {"batch", "done"}
                ELSE /\ l.raised = l.quiet.raised
                     /\ l.result = l.quiet.result
                     /\ l.stats = l.quiet.stats
                     /\ l.times = l.quiet.times

\* Position pos of the commands flat holds a pointer to a ref that no
\* command before pos has defined.
DanglingAt(flat, pos) ==
    \E v \in Pointers(flat[pos]) : \A e \in 1 .. pos - 1 : flat[e]._ref # v

\* Position pos holds a pointer to a ref that neither a command before pos
\* nor the command at pos defines, and no list command stands before pos.
UnresolvableAt(flat, pos) ==
    /\ \A e \in 1 .. pos : ~flat[e].list
    /\ \E v \in Pointers(flat[pos]) : \A e \in 1 .. pos : flat[e]._ref # v

\* The batch recorded in l was dropped at assembly and counted as an error by
\* the worker w, which went on.
DroppedAtAssembly(w, l) ==
    /\ l.raised = "Exception"
    /\ ~l.sent
    /\ l.calls = << >>
    /\ l.stats = << >>
    /\ l.times = << >>
    /\ l.increments = 1
    /\ w.pc \in {"batch", "done"}

\* C9 as stated: a batch in which a pointer field references a ref that no
\* earlier command of the batch has defined fails at assembly; nothing is
\* sent, the batch adds nothing to the statistics, the error counter is
\* incremented by 1 and the worker continues.
C9_DanglingPointerDropsBatch ==
    \A t \in DOMAIN wk :
        LET w == wk[t]
            flat == SuppliedCmds(w.last)
        IN  (Ended(w) /\ \E pos \in DOMAIN flat : DanglingAt(flat, pos)) =>
                DroppedAtAssembly(w, w.last)

\* C9, amended: a batch in which a command with no list command before it
\* holds a pointer to a ref that neither an earlier command nor the command
\* itself defines fails at assembly; nothing is sent, the batch adds nothing
\* to the statistics, the error counter is incremented by 1 and the worker
\* continues.
C9_UnresolvablePointerDropsBatch ==
    \A t \in DOMAIN wk :
        LET w == wk[t]
            flat == SuppliedCmds(w.last)
        IN  (Ended(w) /\ \E pos \in DOMAIN flat : UnresolvableAt(flat, pos)) =>
                DroppedAtAssembly(w, w.last)

\* A worker went on to a later batch after dropping one whose pointer names
\* a ref that is not defined.
C9_Witness ==
    \E t \in DOMAIN wk :
        LET w == wk[t]
            flat == SuppliedCmds(w.last)
        IN  /\ Ended(w)
            /\ \E pos \in DOMAIN flat : UnresolvableAt(flat, pos)
            /\ DroppedAtAssembly(w, w.last)
            /\ w.pc = "batch"
            /\ error_counter >= 1

\* C10 as stated, for the workers that have stopped: a worker stops only by
\* finishing its range, after one attempt at each of its
\* ceil((end - start)/batchsize) batches.
C10_WorkersAttemptEveryBatch ==
    \A t \in DOMAIN wk :
        LET w == wk[t]
        IN  w.pc \in {"done", "dead"} =>
                /\ w.pc = "done"
                /\ Len(w.attempts) = CeilDiv(w.end - w.start, batchsize)

(***************************************************************************)
(* Claims about the batches of a worker's range.                           *)
(***************************************************************************)
\* The k-th slice (k = 1, 2, ...) of the range of worker w.
SliceOf(w, k) ==
    <<w.start + (k - 1) * batchsize, Min(w.start + k * batchsize, w.end)>>

\* C11 as stated: the batches a worker hands to do_batch are, in order, the
\* disjoint contiguous slices of at most batchsize records of its range,
\* each handed over once, and a worker that has stopped has left out no
\* record of its range.
C11_SlicesCoverRangeOnce ==
    \A t \in DOMAIN wk :
        LET w == wk[t]
            n == Len(w.attempts)
        IN  /\ \A k \in 1 .. n :
                  /\ w.attempts[k] = SliceOf(w, k)
                  /\ w.attempts[k][2] - w.attempts[k][1] \in 1 .. batchsize
            /\ w.pc \in {"done", "dead"} =>
                  IF w.start = w.end THEN n = 0 ELSE w.attempts[n][2] = w.end

(***************************************************************************)
(* Claims about the statistics of a run.                                   *)
(***************************************************************************)
\* The batches attempted in the run so far.
AttemptedBatches ==
    SumSeq([k \in 1 .. Cardinality(DOMAIN wk) |-> Len(wk[k - 1].attempts)])

\* Every batch of the run so far succeeded, except that the batch of the
\* records from index first on ended with result 1.
OnlyBatchFailed(first) ==
    \A t \in DOMAIN wk :
        \A k \in DOMAIN wk[t].attempts :
            /\ wk[t].outcomes[k].raised = "none"
            /\ wk[t].outcomes[k].result =
                    IF wk[t].attempts[k][1] = first THEN 1 ELSE 0

\* A quotient in hundredths, rounded down.
Hundredths(q) == (100 * q.num) \div q.den

RunBatches ==
    SumSeq([k \in 1 .. Cardinality(DOMAIN wk) |-> wk[k - 1].total_batches])

\* C13 as stated: after a run with errors, the error percentage print_stats
\* reports is 100 x error counter / number of batches of the run.
C13_ErrorPercentageOverAllBatches ==
    (call = "print_stats" /\ error_counter > 0) =>
        /\ ret.errors_shown
        /\ ret.err_perc.num * RunBatches = 100 * error_counter * ret.err_perc.den

\* C14: after the run, print_stats and the accessors leave times_arr,
\* actual_stats and the error counter as they are, and an operation invoked
\* again right after itself yields what it yielded before.
C14_ReportsAreRepeatable ==
    [][(phase = "finished" /\ phase' = "finished") =>
          /\ UNCHANGED <<times_arr, actual_stats, error_counter>>
          /\ call' = call => ret' = ret]_vars

\* print_stats has reported on a run with batches and errors.
C14_Witness ==
    /\ phase = "finished"
    /\ call = "print_stats"
    /\ ret.total_queries_exec >= 2
    /\ ret.errors_shown

\* What an observer reads off an aggregator: the accessor sums, the number
\* of batches executed, the error counter and the report of print_stats.
Observables(times, errors, stats) ==
    [succeeded_queries |-> SumStat(stats, "succeeded_queries"),
     succeeded_commands |-> SumStat(stats, "succeeded_commands"),
     objects_existed |-> SumStat(stats, "objects_existed"),
     error_counter |-> errors,
     report |-> StatsReport(times, errors)]

\* The aggregator of the distributed path when every worker process ran the
\* batches of one local worker with that worker's outcomes.
Distributed ==
    merge_results([k \in 1 .. Cardinality(DOMAIN wk) |-> ProcessResult(wk[k - 1])])

\* C15 as stated, for runs that are no dry runs and in which every worker
\* finished its range: after the run, the observable statistics of the
\* local path are those the distributed path produces for the same source
\* and the same outcome of every batch.
C15_DistributedEqualsLocal ==
    (phase = "finished" /\ ~dry_run /\ \A t \in DOMAIN wk : wk[t].pc = "done") =>
        Observables(times_arr, error_counter, actual_stats)
            = Observables(Distributed.times_arr, Distributed.error_counter,
                          Distributed.actual_stats)

(***************************************************************************)
(* Claims about the shared state of the workers.                           *)
(***************************************************************************)
\* The workers' records, as a sequence.
Workers == [k \in 1 .. Cardinality(DOMAIN wk) |-> wk[k - 1]]

\* The batches of the run so far that ended with result 1 or by an exception.
FailedBatches == SumSeq([k \in DOMAIN Workers |-> ErrorsIn(Workers[k].outcomes)])

\* C16 as stated: once all workers have finished, the error counter is the
\* number of batches that ended with result 1 plus the number of batches
\* that raised an exception.
C16_NoIncrementIsLost ==
    phase = "finished" => error_counter = FailedBatches

\* The worker w is inside do_batch: past the call of the connection and
\* before the end of line 324.
InsideDoBatch(w) ==
    \/ w.pc \in {"append_times", "append_stats"}
    \/ w.pc \in {"inc_read", "inc_write"} /\ w.after = "append"

\* The entries the batches that returned have to append, worker by worker.
DueEntries(f) == Concat([k \in DOMAIN Workers |-> AppendedIn(Workers[k].outcomes, f)])

\* How often v occurs in the sequence q.
Occurrences(q, v) == Cardinality({k \in DOMAIN q : q[k] = v})

\* C17: a batch that has returned from do_batch has appended one entry to
\* times_arr and one to actual_stats and a batch that raised none; whenever
\* no worker is inside do_batch, times_arr and actual_stats hold exactly the
\* entries of the batches that returned, each as often as it was appended.
C17_OneEntryPerReturnedBatch ==
    /\ \A t \in DOMAIN wk :
          LET w == wk[t]
          IN  Ended(w) =>
                 /\ Len(w.last.times) = (IF w.last.raised = "none" THEN 1 ELSE 0)
                 /\ Len(w.last.stats) = (IF w.last.raised = "none" THEN 1 ELSE 0)
    /\ (\A t \in DOMAIN wk : ~InsideDoBatch(wk[t])) =>
          /\ Len(times_arr) = Len(DueEntries("query_time"))
          /\ Len(actual_stats) = Len(times_arr)
          /\ \A k \in DOMAIN actual_stats :
                Occurrences(actual_stats, actual_stats[k])
                    = Occurrences(DueEntries("worker_stats"), actual_stats[k])
          /\ \A k \in DOMAIN times_arr :
                Occurrences(times_arr, times_arr[k])
                    = Occurrences(DueEntries("query_time"), times_arr[k])

\* Two workers have each appended the entries of a batch, with different
\* statistics.
C17_Witness ==
    /\ \A t \in DOMAIN wk : ~InsideDoBatch(wk[t])
    /\ Len(actual_stats) = 2
    /\ Len(times_arr) = 2
    /\ actual_stats[1] # actual_stats[2]
    /\ \A k \in DOMAIN Workers : AppendedIn(Workers[k].outcomes, "query_time") # << >>

\* C18 as stated: for every batch that a worker completed with result 0, 1
\* or 2, the time appended to times_arr is the duration the connection
\* reported for the batch's call.
C18_AppendedTimeIsReportedTime ==
    \A t \in DOMAIN wk :
        LET l == wk[t].last
        IN  (Ended(wk[t]) /\ l.raised = "none" /\ l.result \in {0, 1, 2}) =>
                l.times = <<l.reported>>

(***************************************************************************)
(* Claims about list-typed commands and the limit of refs.                 *)
(***************************************************************************)
\* The position of the last command among the first j of flat that defines
\* the local ref v (0: there is none).
LastDef(flat, j, v) ==
    IF \E e \in 1 .. j : flat[e]._ref = v
    THEN CHOOSE e \in 1 .. j :
            flat[e]._ref = v /\ \A e2 \in e + 1 .. j : flat[e2]._ref # v
    ELSE 0

\* The command at position j of flat, renumbered as the commands of a batch
\* are: its _ref is its position and each pointer the position of the
\* command that last defined the ref it names.
RenumberedAt(flat, j) ==
    LET fields == PtrFields(flat[j])
    IN  [_ref |-> IF flat[j]._ref # 0 THEN j ELSE 0,
         pointers |-> [k \in DOMAIN fields |->
                         IF fields[k] = 0 THEN 0 ELSE LastDef(flat, j, fields[k])]]

\* What generate_batch made of the command at position j.
AssembledAt(q, j) == [_ref |-> q[j]._ref, pointers |-> PtrFields(q[j])]

\* generate_batch renumbered the commands of flat before position p and
\* returned the commands from p on as supplied.
RenumberedUpTo(flat, p, result) ==
    /\ result.raised = "none"
    /\ Len(result.q) = Len(flat)
    /\ \A j \in 1 .. p - 1 : AssembledAt(result.q, j) = RenumberedAt(flat, j)
    /\ \A j \in p .. Len(flat) : result.q[j] = flat[j]

\* C19 as stated: when the commands of a batch hold a list-typed command at
\* position p, generate_batch does not raise, returns the commands before p
\* renumbered and those from p on as supplied.
C19_ListCommandStopsRenumbering ==
    call = "done" =>
        LET flat == FlatCmds(args.data)
        IN  \A p \in DOMAIN flat : flat[p].list => RenumberedUpTo(flat, p, ret)

\* Every pointer of the commands of flat before position p names a ref that
\* an earlier command or the command itself defines.
ResolvableBefore(flat, p) ==
    \A j \in 1 .. p - 1 :
        \A v \in Pointers(flat[j]) : \E e \in 1 .. j : flat[e]._ref = v

\* C19, amended: when the first list-typed command of a batch is at position
\* p and every pointer before p names a ref defined by an earlier command or
\* by its own command, generate_batch does not raise, returns the commands
\* before p renumbered and those from p on as supplied.
C19_FirstListCommandStopsRenumbering ==
    call = "done" =>
        LET flat == FlatCmds(args.data)
        IN  \A p \in DOMAIN flat :
               (/\ flat[p].list
                /\ \A e \in 1 .. p - 1 : ~flat[e].list
                /\ ResolvableBefore(flat, p)) =>
                   RenumberedUpTo(flat, p, ret)

\* A list command in the middle: the command before it defines a ref and
\* points at it, the command after it holds a pointer that stays as it is.
C19_Witness ==
    /\ call = "done"
    /\ LET flat == FlatCmds(args.data)
       IN  /\ Len(flat) = 3
           /\ flat[2].list
           /\ flat[1]._ref # 0
           /\ Pointers(flat[1]) # {}
           /\ Pointers(flat[3]) # {}
           /\ flat[3]._ref # 0
           /\ ret.raised = "none"
           /\ ret.q[3] = flat[3]

\* generate_batch was called on the long batch of args, and the worker has
\* dealt with what it raised.
LongBatchDone == call = "counted" \/ (call = "done" /\ ret.raised = "none")

\* Every ref of a batch that generate_batch produced is below RefLimit.
RefsBelowLimit ==
    ret.raised = "none" => \A j \in DOMAIN ret.q : ret.q[j]._ref < RefLimit

\* C20 as stated: every ref generate_batch writes is below 100000; a batch
\* in which a command at position 100000 or later defines a _ref fails at
\* assembly with an assertion error, which the worker counts as one error.
C20_RefsStayBelowLimit ==
    LongBatchDone =>
        /\ RefsBelowLimit
        /\ \A j \in DOMAIN args.tail :
              (args.lead + j >= RefLimit /\ args.tail[j]._ref # 0) =>
                 /\ ret.raised = "AssertionError"
                 /\ error_counter = 1

\* C20, amended: every ref generate_batch writes is below 100000; a batch in
\* which a command at position 100000 or later defines a _ref, with no
\* list-typed command before it and no pointer before it that names a ref
\* not yet defined, fails at assembly with an assertion error, which the
\* worker counts as one error.
C20_RefsStayBelowLimitUnlessCutShort ==
    LongBatchDone =>
        /\ RefsBelowLimit
        /\ \A j \in DOMAIN args.tail :
              (/\ args.lead + j >= RefLimit
               /\ args.tail[j]._ref # 0
               /\ \A e \in 1 .. j : ~args.tail[e].list
               /\ ResolvableBefore(args.tail, j)) =>
                 /\ ret.raised = "AssertionError"
                 /\ error_counter = 1

\* The command at position 99999 got its ref, the one at position 100000
\* failed the assertion, and the worker has counted the batch.
C20_Witness ==
    /\ call = "counted"
    /\ Len(args.tail) = 2
    /\ args.lead + 2 = RefLimit
    /\ args.tail[1]._ref # 0
    /\ args.tail[2]._ref # 0
    /\ ret.raised = "AssertionError"
    /\ error_counter = 1


(***************************************************************************)
(* Claims about the output-blob cursor after a group was handed None.      *)
(***************************************************************************)
\* C21: the output-blob cursor advances by a group's width even when the
\* group is handed None, so once a group of a batch is handed None every
\* later group of the batch is handed None too, whatever its own width (0
\* included): the cursor, the sum of the widths before it, is past the end
\* of the output blobs.
C21_NoneIsSticky ==
    call = "done" =>
        \A g \in DOMAIN ret.calls, h \in DOMAIN ret.calls :
            (g < h /\ ret.calls[g].response_blobs = NoneSlice) =>
                /\ ret.calls[h].response_blobs = NoneSlice
                /\ ClaimedStart(args, h - 1)
                      >= ClaimedStart(args, g - 1) + ClaimedWidth(args, g - 1)
                /\ ClaimedStart(args, h - 1) > Len(args.response_blobs)

\* Two output blobs, a first group of width 3 and a second of width 0: both
\* are handed None.
C21_Witness ==
    /\ call = "done"
    /\ Len(ret.calls) = 2
    /\ Len(args.response_blobs) = 2
    /\ ClaimedWidth(args, 0) = 3
    /\ ClaimedWidth(args, 1) = 0
    /\ ret.calls[1].response_blobs = NoneSlice
    /\ ret.calls[2].response_blobs = NoneSlice


(***************************************************************************)
(* Claims about the remap table of a batch of several records.             *)
(***************************************************************************)
\* Every command of flat is a dict command, and every pointer names a ref
\* that some command of the batch at or before it defines.
DictCmdsResolvable(flat) ==
    /\ \A j \in DOMAIN flat : ~flat[j].list
    /\ ResolvableBefore(flat, Len(flat) + 1)

\* The first position of the record that holds position pos.
RecordStart(data, pos) ==
    CHOOSE e \in 1 .. pos :
        /\ RecordAt(data, e) = RecordAt(data, pos)
        /\ \A e2 \in 1 .. e - 1 : RecordAt(data, e2) # RecordAt(data, pos)

\* C24 as stated: a pointer is rewritten to the position of the most recent
\* earlier command of the batch that defined the ref it names.
C24_PointerNamesLastEarlierDefinition ==
    (call = "done" /\ DictCmdsResolvable(FlatCmds(args.data))) =>
        LET flat == FlatCmds(args.data)
        IN  /\ ret.raised = "none"
            /\ \A j \in DOMAIN flat : \A k \in DOMAIN PtrFields(flat[j]) :
                  LET v == PtrFields(flat[j])[k]
                  IN  (v # 0 /\ LastDef(flat, j - 1, v) # 0) =>
                         PtrFields(ret.q[j])[k] = LastDef(flat, j - 1, v)

\* C24, amended: the remap table spans the batch; a pointer is rewritten to
\* the position of the most recent command of the batch, at or before the
\* pointer's own command, that defined the ref it names (its own command
\* when that defines the ref itself); so a pointer whose ref its own record
\* has not defined by then is resolved to a command of an earlier record,
\* without failing.
C24_PointerNamesLastDefinition ==
    (call = "done" /\ DictCmdsResolvable(FlatCmds(args.data))) =>
        LET flat == FlatCmds(args.data)
        IN  /\ ret.raised = "none"
            /\ \A j \in DOMAIN flat : \A k \in DOMAIN PtrFields(flat[j]) :
                  LET v == PtrFields(flat[j])[k]
                      target == PtrFields(ret.q[j])[k]
                  IN  v # 0 =>
                        /\ target = LastDef(flat, j, v)
                        /\ target \in 1 .. j
                        /\ (\A e \in RecordStart(args.data, j) .. j :
                                flat[e]._ref # v) =>
                              RecordAt(args.data, target) < RecordAt(args.data, j)

\* Three records of one command each: the first two define local ref 1, the
\* third only points at it and is resolved to the second record's command.
C24_Witness ==
    /\ call = "done"
    /\ Len(args.data) = 3
    /\ LET flat == FlatCmds(args.data)
       IN  /\ Len(flat) = 3
           /\ flat[1]._ref = 1 /\ flat[2]._ref = 1 /\ flat[3]._ref = 0
           /\ Pointers(flat[1]) = {} /\ Pointers(flat[2]) = {}
           /\ flat[3].src = 1
           /\ ret.raised = "none"
           /\ ret.q[3].src = 2


(***************************************************************************)
(* Claims about do_batch alone.                                            *)
(***************************************************************************)
\* The number of per-command entries of the response r with status st.
EntriesWithStatus(r, st) ==
    IF r.shape = "list"
    THEN SumSeq([k \in 1 .. Len(r.items) |->
                   IF r.items[k].status = st THEN 1 ELSE 0])
    ELSE 0

\* The number of groups of c consecutive entries of r that all have status 0.
GroupsAllZero(r, c) ==
    IF r.shape = "list"
    THEN SumSeq([g \in 1 .. CeilDiv(Len(r.items), c) |->
                   IF \A k \in (g - 1) * c + 1 .. Min(g * c, Len(r.items)) :
                         r.items[k].status = 0
                   THEN 1 ELSE 0])
    ELSE 0

\* C22 as stated: for a batch that ended with result 2, do_batch left the
\* error counter as it was and recorded succeeded_commands = the number of
\* commands with status 0, objects_existed = the number with status 2 and
\* succeeded_queries = the number of groups of commands_per_query responses
\* that are all 0; so succeeded_queries is at most the number of records of
\* the batch and succeeded_commands + objects_existed at most its number of
\* commands.
C22_PartialFailureStatistics ==
    (call = "done" /\ ret.raised = "none" /\ ret.result = 2) =>
        LET r == args.env.r
            data == StatBatch(args.i)
            st == actual_stats[Len(actual_stats)]
        IN  /\ error_counter = 0
            /\ Len(actual_stats) = 1
            /\ st.succeeded_commands = EntriesWithStatus(r, 0)
            /\ st.objects_existed = EntriesWithStatus(r, 2)
            /\ st.succeeded_queries = GroupsAllZero(r, commands_per_query)
            /\ st.succeeded_queries <= Len(data)
            /\ st.succeeded_commands + st.objects_existed <= Len(FlatCmds(data))


\* The handler raised during the batch of args: the call succeeded, a
\* handler is supplied and it is told to raise at one of the batch's groups.
HandlerRaisedAlone ==
    /\ call = "done"
    /\ generator.arity # 0
    /\ args.env.ok
    /\ args.env.raise_at >= 1

\* How the batch of args ends when its statuses alone decide: a list
\* response is result 0 when every status is 0 or 2 and result 2 otherwise,
\* and is counted as such.
CountedFromStatuses ==
    LET r == args.env.r
        data == StatBatch(args.i)
        good == \A k \in DOMAIN r.items : r.items[k].status \in {0, 2}
    IN  /\ ret.raised = "none"
        /\ ret.result = IF good THEN 0 ELSE 2
        /\ error_counter = 0
        /\ times_arr = <<IF good THEN args.env.time ELSE 0>>
        /\ actual_stats =
              <<IF good
                THEN Stats(Len(data), Len(FlatCmds(data)), EntriesWithStatus(r, 2))
                ELSE Stats(GroupsAllZero(r, commands_per_query),
                           EntriesWithStatus(r, 0), EntriesWithStatus(r, 2))>>

\* C25: if the handler raises at group g of a batch, it was invoked for the
\* groups up to g and for no group after g, with strict validation and
\* without; without strict validation the batch ends as the same batch does
\* with a handler that does not raise, classified and counted from the
\* statuses of its response alone.
C25_HandlerFailureEndsDispatch ==
    HandlerRaisedAlone =>
        /\ Len(ret.calls) = args.env.raise_at
        /\ \A g \in DOMAIN ret.calls :
              ret.calls[g].index = BatchStart(0, args.i, batchsize) + g - 1
        /\ generator.strict => ret.raised = args.env.kind
        /\ ~generator.strict =>
              \A quiet \in {do_batch(RunCfg, [args.env EXCEPT !.raise_at = 0],
                                      BatchStart(0, args.i, batchsize),
                                      StatBatch(args.i))} :
                  /\ ret.raised = quiet.raised
                  /\ ret.result = quiet.result
                  /\ ret.query_time = quiet.query_time
                  /\ ret.worker_stats = quiet.worker_stats
                  /\ ret.counts_error = quiet.counts_error
                  /\ args.env.r.shape = "list" => CountedFromStatuses

\* Without strict validation the handler raised at the first of three
\* groups of a batch whose response holds a failed command: it was invoked
\* once and the batch was counted as a partial failure.
C25_Witness ==
    /\ HandlerRaisedAlone
    /\ ~generator.strict
    /\ args.env.raise_at = 1
    /\ CeilDiv(Len(FlatCmds(StatBatch(args.i))), commands_per_query) = 3
    /\ Len(ret.calls) = 1
    /\ ret.result = 2
    /\ Len(actual_stats) = 1
    /\ actual_stats[1].succeeded_queries = 2


(***************************************************************************)
(* Claims about successive calls of query().                               *)
(***************************************************************************)
\* C23 as stated: after every call of query() with a source that is not
\* empty, the commands_per_query and blobs_per_query the batches of that run
\* were demultiplexed with are the numbers of commands and of blobs of the
\* source's first record, whatever the calls before.
C23_StructureIsInferredAnew ==
    (call = "queried" /\ Len(generator.records) > 0) =>
        /\ commands_per_query = Len(generator.records[1].cmds)
        /\ blobs_per_query = Len(generator.records[1].blobs)

====
